---- MODULE Spec2Model ----
(***************************************************************************)
(* Native homogeneous lists (numba/targets/listobj.py) and slice           *)
(* arithmetic (numba/targets/slicing.py), modelled at the level of the     *)
(* code the builders emit: a payload {allocated, size, data[]} behind a    *)
(* meminfo, machine integers of a fixed width, an allocator that may       *)
(* reject a request.                                                       *)
(***************************************************************************)
EXTENDS Integers, Sequences, FiniteSets, TLC

VARIABLES lst, out, iter, sl, hist

vars == <<lst, out, iter, sl, hist>>

(***************************************************************************)
(* Bounds of the model.                                                    *)
(***************************************************************************)
\* width of intp in bits (scaled down from 32/64)
IntBits == 8
\* items are 1..MaxVal
MaxVal == 2
\* operations that would take the list beyond MaxLen items are not taken
MaxLen == 3
\* longest source list handed to extend / += / slice assignment
MaxSrc == MaxLen - 1
\* the allocator rejects every request above HeapLimit bytes
HeapLimit == 24
\* slice bounds and indices are drawn from -MaxIdx..MaxIdx (and the extremes)
MaxIdx == MaxLen + 1

(***************************************************************************)
(* Machine integers.                                                       *)
(***************************************************************************)
Pow2(n) == 2 ^ n

MaxInt == Pow2(IntBits - 1) - 1

MinInt == 0 - Pow2(IntBits - 1)

IntP == MinInt..MaxInt

\* two's complement wrap-around of builder.add / builder.sub / builder.mul
Wrap(x) == ((x - MinInt) % Pow2(IntBits)) + MinInt

Add(a, b) == Wrap(a + b)

Sub(a, b) == Wrap(a - b)

Mul(a, b) == Wrap(a * b)

\* builder.ashr(x, 2): arithmetic shift, rounds toward minus infinity
Ashr2(x) == x \div 4

Abs(x) == IF x < 0 THEN 0 - x ELSE x

\* builder.sdiv: quotient truncated toward zero (b # 0)
SDiv(a, b) ==
  LET q == Abs(a) \div Abs(b)
  IN  IF (a < 0) = (b < 0) THEN Wrap(q) ELSE Wrap(0 - q)

IsNegInt(x) == x < 0

Min(a, b) == IF a < b THEN a ELSE b

Max(a, b) == IF a > b THEN a ELSE b

(***************************************************************************)
(* Items, payloads.                                                        *)
(***************************************************************************)
Vals == 1..MaxVal

\* content of a slot that was allocated and never written
Garbage == 0 - 1

\* abi size of one item (int8 items)
ItemSize == 1

\* abi size of the payload struct: size, allocated and the first data slot
PayloadSize == 3

SeqsUpTo(n) == UNION {[1..k -> Vals] : k \in 0..n}

\* the logically visible items of a payload
Items(p) == [i \in 1..Max(p.size, 0) |-> p.data[i]]

\* cgutils.muladd_with_overflow: a * b + c, and whether either step overflowed
MulAddOverflow(a, b, c) == (a * b \notin IntP) \/ (a * b + c \notin IntP)

\* the allocator: a request is met only if it fits the heap; it may be
\* rejected (ok = FALSE) at any time.  A negative size is a huge size_t.
AllocatorAccepts(allocsize, ok) == ok /\ allocsize >= 0 /\ allocsize <= HeapLimit

\* the item storage after a (re)allocation to n slots: the common prefix is
\* kept, new slots are uninitialised
Refit(data, n) ==
  [i \in 1..Max(n, 0) |-> IF i <= Len(data) THEN data[i] ELSE Garbage]

(***************************************************************************)
(* Results of an operation: the error raised ("none" when it completed),   *)
(* the payload it leaves, the value it returns.                            *)
(***************************************************************************)
NoErr == "none"

MemErr == "MemoryError"

EmptyErr == "IndexError: pop from empty list"

RangeErr == "IndexError: pop index out of range"

StepErr == "ValueError: slice step cannot be zero"

SizeErr == "ValueError: cannot resize extended list slice with step != 1"

DelErr == "NotImplementedError: unsupported del list[start:stop:step] with step != 1"

Done(p, ret) == [err |-> NoErr, p |-> p, ret |-> ret]

Fail(p, e) == [err |-> e, p |-> p, ret |-> 0]

(***************************************************************************)
(* _ListPayloadMixin: raw access and index fixing.                         *)
(***************************************************************************)
InAlloc(p, idx) == idx >= 0 /\ idx < Len(p.data)

\* a load from a slot; outside the allocation the value is indeterminate
getitem(p, idx) == IF InAlloc(p, idx) THEN p.data[idx + 1] ELSE Garbage

\* a store to a slot; outside the allocation it does not land in the items
setitem(p, idx, val) ==
  IF InAlloc(p, idx) THEN [p EXCEPT !.data[idx + 1] = val] ELSE p

inititem(p, idx, val) ==
  IF InAlloc(p, idx) THEN [p EXCEPT !.data[idx + 1] = val] ELSE p

fix_index(idx, size) == IF idx < 0 THEN Add(idx, size) ELSE idx

is_out_of_bounds(p, idx) == idx < 0 \/ idx >= p.size

\* clamp_index taking the last item's index as the upper limit
clamp_index_below(p, idx) ==
  IF idx >= p.size THEN p.size - 1 ELSE IF idx < 0 THEN 0 ELSE idx

clamp_index(p, idx) ==
  IF idx >= p.size THEN p.size ELSE IF idx < 0 THEN 0 ELSE idx

(***************************************************************************)
(* ListInstance: allocate, resize, move.                                   *)
(***************************************************************************)
allocate(nitems, ok) ==
  IF MulAddOverflow(nitems, ItemSize, PayloadSize)
  THEN Fail([allocated |-> 0, size |-> 0, data |-> <<>>], MemErr)
  ELSE IF ~AllocatorAccepts(nitems * ItemSize + PayloadSize, ok)
  THEN Fail([allocated |-> 0, size |-> 0, data |-> <<>>], MemErr)
  ELSE Done([allocated |-> nitems, size |-> 0, data |-> Refit(<<>>, nitems)], 0)

payload_realloc(p, new_allocated, ok) ==
  IF MulAddOverflow(new_allocated, ItemSize, PayloadSize)
  THEN Fail(p, MemErr)
  ELSE IF ~AllocatorAccepts(new_allocated * ItemSize + PayloadSize, ok)
  THEN Fail(p, MemErr)
  ELSE Done([p EXCEPT !.allocated = new_allocated,
                      !.data = Refit(p.data, new_allocated)], 0)

\* a growth with no headroom
grow_allocated_exact(new_size) == new_size

\* the capacity asked for when the list is too small
grow_allocated(new_size) == Add(8, Add(new_size, Ashr2(new_size)))

is_too_small(allocated, new_size) == allocated < new_size

is_too_large(allocated, new_size) == Ashr2(allocated) > new_size

\* ok1, ok2: the allocator's answers to the downsize and the upsize request
resize(p, new_size, ok1, ok2) ==
  LET small == is_too_small(p.allocated, new_size)
      large == is_too_large(p.allocated, new_size)
      r1 == IF large THEN payload_realloc(p, new_size, ok1) ELSE Done(p, 0)
      r2 == IF r1.err # NoErr THEN r1
            ELSE IF small THEN payload_realloc(r1.p, grow_allocated(new_size), ok2)
            ELSE r1
  IN  IF r2.err # NoErr THEN r2
      ELSE Done([r2.p EXCEPT !.size = new_size], 0)

\* cgutils.memmove of count items inside one payload (overlap-safe)
move(p, dest_idx, src_idx, count) ==
  IF count <= 0 THEN p
  ELSE [p EXCEPT !.data =
          [i \in 1..Len(p.data) |->
             IF i - 1 >= dest_idx /\ i - 1 < dest_idx + count
             THEN getitem(p, (i - 1) - dest_idx + src_idx)
             ELSE p.data[i]]]

\* build_list of a list display: allocate(nitems), size = nitems, then the items
build_list(items) ==
  [allocated |-> Len(items), size |-> Len(items), data |-> items]

(***************************************************************************)
(* slicing.py: slices are records {start, stop, step}.                     *)
(***************************************************************************)
Slice(start, stop, step) == [start |-> start, stop |-> stop, step |-> step]

\* fix_bound of fix_slice: the overflow test is emitted last and wins
fix_bound(bound, size, lower_repl, upper_repl) ==
  LET b == fix_index(bound, size)
  IN  IF b >= size THEN upper_repl
      ELSE IF b < 0 THEN lower_repl
      ELSE b

\* fix_slice clamping a negative step's bounds like a positive step's
fix_slice_one_policy(s, size) ==
  [s EXCEPT !.start = fix_bound(s.start, size, 0, size),
            !.stop  = fix_bound(s.stop, size, 0, size)]

fix_slice(s, size) ==
  IF IsNegInt(s.step)
  THEN [s EXCEPT !.start = fix_bound(s.start, size, 0 - 1, Add(size, 0 - 1)),
                 !.stop  = fix_bound(s.stop, size, 0 - 1, Add(size, 0 - 1))]
  ELSE [s EXCEPT !.start = fix_bound(s.start, size, 0, size),
                 !.stop  = fix_bound(s.stop, size, 0, size)]

\* sdiv of the most negative integer by -1 has no defined result
SDivUndefined(a, b) == b = 0 \/ (a = MinInt /\ b = 0 - 1)

slice_dividend(s) ==
  IF IsNegInt(s.step) THEN Add(Sub(s.stop, s.start), 1)
  ELSE Sub(Sub(s.stop, s.start), 1)

\* get_slice_length without the clamp to zero
get_slice_length_unclamped(s) == Add(1, SDiv(slice_dividend(s), s.step))

get_slice_length(s) ==
  LET delta == Sub(s.stop, s.start)
      nominal_length == Add(1, SDiv(slice_dividend(s), s.step))
      is_zero_length == IF IsNegInt(s.step) THEN delta >= 0 ELSE delta <= 0
  IN  IF is_zero_length THEN 0 ELSE nominal_length

\* cgutils.for_range_slice_generic: the indices the loop visits, in order
RECURSIVE for_range_slice(_, _, _, _)
for_range_slice(idx, stop, step, fuel) ==
  IF fuel = 0 THEN <<>>
  ELSE IF step > 0 /\ idx < stop
  THEN <<idx>> \o for_range_slice(idx + step, stop, step, fuel - 1)
  ELSE IF step < 0 /\ idx > stop
  THEN <<idx>> \o for_range_slice(idx + step, stop, step, fuel - 1)
  ELSE <<>>

for_range_slice_generic(s) ==
  for_range_slice(s.start, s.stop, s.step, Pow2(IntBits))

\* cgutils.guard_invalid_slice
invalid_slice(s) == s.step = 0

(***************************************************************************)
(* listobj.py: the operations.  same = TRUE when the source operand is the *)
(* destination list itself (one payload), so that its loads see the        *)
(* destination's stores.                                                   *)
(***************************************************************************)
\* for_range(n): d[off + i] = source[i] for i = from, from + 1, ... < n
RECURSIVE copy_loop(_, _, _, _, _, _)
copy_loop(d, s, same, i, n, off) ==
  IF i >= n THEN d
  ELSE LET value == IF same THEN getitem(d, i) ELSE getitem(s, i)
       IN  copy_loop(setitem(d, Add(i, off), value), s, same, i + 1, n, off)

\* gather reading the source at the running count instead of the index
RECURSIVE gather_loop_by_count(_, _, _, _)
gather_loop_by_count(result, p, idxs, count) ==
  IF count >= Len(idxs) THEN result
  ELSE gather_loop_by_count(inititem(result, count, getitem(p, count)),
                            p, idxs, count + 1)

\* the loops of getslice / extended slice assignment over the visited indices
RECURSIVE gather_loop(_, _, _, _)
gather_loop(result, p, idxs, count) ==
  IF count >= Len(idxs) THEN result
  ELSE gather_loop(inititem(result, count, getitem(p, idxs[count + 1])),
                   p, idxs, count + 1)

\* scatter reading the source at the destination index instead of the count
RECURSIVE scatter_loop_by_index(_, _, _, _, _)
scatter_loop_by_index(d, s, same, idxs, count) ==
  IF count >= Len(idxs) THEN d
  ELSE LET value == IF same THEN getitem(d, idxs[count + 1])
                    ELSE getitem(s, idxs[count + 1])
       IN  scatter_loop_by_index(setitem(d, idxs[count + 1], value), s, same,
                                 idxs, count + 1)

RECURSIVE scatter_loop(_, _, _, _, _)
scatter_loop(d, s, same, idxs, count) ==
  IF count >= Len(idxs) THEN d
  ELSE LET value == IF same THEN getitem(d, count) ELSE getitem(s, count)
       IN  scatter_loop(setitem(d, idxs[count + 1], value), s, same, idxs, count + 1)

list_append(p, item, ok1, ok2) ==
  LET n == p.size
      r == resize(p, Add(n, 1), ok1, ok2)
  IN  IF r.err # NoErr THEN r ELSE Done(setitem(r.p, n, item), 0)

list_clear(p, ok1, ok2) == resize(p, 0, ok1, ok2)

list_insert(p, i, value, ok1, ok2) ==
  LET index == clamp_index(p, fix_index(i, p.size))
      n == p.size
      r == resize(p, Add(n, 1), ok1, ok2)
  IN  IF r.err # NoErr THEN r
      ELSE Done(setitem(move(r.p, Add(index, 1), index, Sub(n, index)),
                        index, value), 0)

list_pop(p, ok1, ok2) ==
  IF p.size = 0 THEN Fail(p, EmptyErr)
  ELSE LET n == Sub(p.size, 1)
           res == getitem(p, n)
           r == resize(p, n, ok1, ok2)
       IN  IF r.err # NoErr THEN r ELSE Done(r.p, res)

\* pop(i) that shrinks without moving the tail
list_pop_index_no_move(p, i, ok1, ok2) ==
  LET idx == fix_index(i, p.size)
  IN  IF p.size = 0 THEN Fail(p, EmptyErr)
      ELSE IF is_out_of_bounds(p, idx) THEN Fail(p, RangeErr)
      ELSE LET r == resize(p, Sub(p.size, 1), ok1, ok2)
           IN  IF r.err # NoErr THEN r ELSE Done(r.p, getitem(p, idx))

\* pop(i) that tests the index before the emptiness
list_pop_index_range_first(p, i, ok1, ok2) ==
  LET idx == fix_index(i, p.size)
  IN  IF is_out_of_bounds(p, idx) THEN Fail(p, RangeErr)
      ELSE LET r == resize(move(p, idx, Add(idx, 1), Sub(Sub(p.size, 1), idx)),
                           Sub(p.size, 1), ok1, ok2)
           IN  IF r.err # NoErr THEN r ELSE Done(r.p, getitem(p, idx))

list_pop_index(p, i, ok1, ok2) ==
  LET idx == fix_index(i, p.size)
  IN  IF p.size = 0 THEN Fail(p, EmptyErr)
      ELSE IF is_out_of_bounds(p, idx) THEN Fail(p, RangeErr)
      ELSE LET res == getitem(p, idx)
               n == Sub(p.size, 1)
               moved == move(p, idx, Add(idx, 1), Sub(n, idx))
               r == resize(moved, n, ok1, ok2)
           IN  IF r.err # NoErr THEN r ELSE Done(r.p, res)

\* extend that copies the source over the front of the destination
list_extend_list_at_front(dest, src, same, ok1, ok2) ==
  LET src_size == IF same THEN dest.size ELSE src.size
      nitems == Add(src_size, dest.size)
      r == resize(dest, nitems, ok1, ok2)
  IN  IF r.err # NoErr THEN r
      ELSE Done(copy_loop([r.p EXCEPT !.size = nitems], src, same,
                          0, src_size, 0), 0)

list_extend_list(dest, src, same, ok1, ok2) ==
  LET src_size == IF same THEN dest.size ELSE src.size
      dest_size == dest.size
      nitems == Add(src_size, dest_size)
      r == resize(dest, nitems, ok1, ok2)
  IN  IF r.err # NoErr THEN r
      ELSE Done(copy_loop([r.p EXCEPT !.size = nitems], src, same,
                          0, src_size, dest_size), 0)

\* a += b
list_add_inplace(dest, src, same, ok1, ok2) ==
  list_extend_list(dest, src, same, ok1, ok2)

\* the outer for_range_slice(src_size, nitems, src_size): one block per turn
RECURSIVE tile_loop(_, _, _, _, _, _)
tile_loop(d, s, same, dest_offset, nitems, src_size) ==
  IF dest_offset >= nitems THEN d
  ELSE tile_loop(copy_loop(d, s, same, 0, src_size, dest_offset), s, same,
                 Add(dest_offset, src_size), nitems, src_size)

\* a * n: a new list
list_mul(src, m, ok) ==
  LET src_size == src.size
      mult == IF IsNegInt(m) THEN 0 ELSE m
      nitems == Mul(mult, src_size)
      a == allocate(nitems, ok)
  IN  IF a.err # NoErr THEN a
      ELSE Done(tile_loop([a.p EXCEPT !.size = nitems], src, FALSE,
                          0, nitems, src_size), 0)

list_mul_inplace(p, m, ok1, ok2) ==
  LET src_size == p.size
      mult == IF IsNegInt(m) THEN 0 ELSE m
      nitems == Mul(mult, src_size)
      r == resize(p, nitems, ok1, ok2)
  IN  IF r.err # NoErr THEN r
      ELSE Done(tile_loop(r.p, r.p, TRUE, src_size, nitems, src_size), 0)

\* a slice read that copies the whole list whatever the slice
getslice_list_whole(p, raw, ok) ==
  IF invalid_slice(raw) THEN Fail(build_list(<<>>), StepErr)
  ELSE LET a == allocate(p.size, ok)
       IN  IF a.err # NoErr THEN a
           ELSE Done([a.p EXCEPT !.size = p.size, !.data = p.data], 0)

\* lst[start:stop:step]: ret carries nothing, p is the new list
getslice_list(p, raw, ok) ==
  IF invalid_slice(raw) THEN Fail(build_list(<<>>), StepErr)
  ELSE LET s == fix_slice(raw, p.size)
           result_size == get_slice_length(s)
           a == allocate(result_size, ok)
       IN  IF a.err # NoErr THEN a
           ELSE Done(gather_loop([a.p EXCEPT !.size = result_size], p,
                                 for_range_slice_generic(s), 0), 0)

\* the stop as written instead of start + length
slice_written_stop(s, avail_size) == s.stop

\* the real stop of a step-1 slice, e.g. for dest[2:0] = [...]
slice_real_stop(s, avail_size) == Add(s.start, avail_size)

\* dest[start:stop:step] = src
setslice_list(dest, raw, src, same, ok1, ok2) ==
  IF invalid_slice(raw) THEN Fail(dest, StepErr)
  ELSE
  LET s == fix_slice(raw, dest.size)
      src_size == IF same THEN dest.size ELSE src.size
      avail_size == get_slice_length(s)
      size_delta == Sub(src_size, avail_size)
      real_stop == slice_real_stop(s, avail_size)
      tail_size == Sub(dest.size, real_stop)
  IN  IF s.step = 1
      THEN LET grown == resize(dest, Add(dest.size, size_delta), ok1, ok2)
               shrunk == resize(move(dest, Add(real_stop, size_delta),
                                     real_stop, tail_size),
                                Add(dest.size, size_delta), ok1, ok2)
               r == IF size_delta > 0
                    THEN IF grown.err # NoErr THEN grown
                         ELSE Done(move(grown.p, Add(real_stop, size_delta),
                                        real_stop, tail_size), 0)
                    ELSE IF size_delta < 0 THEN shrunk
                    ELSE Done(dest, 0)
           IN  IF r.err # NoErr THEN r
               ELSE Done(copy_loop(r.p, src, same, 0, src_size, s.start), 0)
      ELSE IF size_delta # 0 THEN Fail(dest, SizeErr)
      ELSE Done(scatter_loop(dest, src, same, for_range_slice_generic(s), 0), 0)

\* slice deletion that shrinks without moving the tail
delslice_list_no_move(p, raw, ok1, ok2) ==
  IF invalid_slice(raw) THEN Fail(p, StepErr)
  ELSE LET s == fix_slice(raw, p.size)
       IN  IF s.step # 1 THEN Fail(p, DelErr)
           ELSE resize(p, Sub(p.size, get_slice_length(s)), ok1, ok2)

\* del lst[start:stop:step]
delslice_list(p, raw, ok1, ok2) ==
  IF invalid_slice(raw) THEN Fail(p, StepErr)
  ELSE
  LET s == fix_slice(raw, p.size)
      slice_len == get_slice_length(s)
      real_stop == Add(s.start, slice_len)
      tail_size == Sub(p.size, real_stop)
  IN  IF s.step # 1 THEN Fail(p, DelErr)
      ELSE resize(move(p, s.start, real_stop, tail_size),
                  Sub(p.size, slice_len), ok1, ok2)

\* list(iterable) over a non-list iterable: res = []; res.extend(iterable),
\* which appends the items one by one
RECURSIVE extend_generic(_, _, _, _)
extend_generic(p, items, k, ok) ==
  IF k > Len(items) THEN Done(p, 0)
  ELSE LET r == list_append(p, items[k], ok, ok)
       IN  IF r.err # NoErr THEN r ELSE extend_generic(r.p, items, k + 1, ok)

\* lst.extend(iterable): the bulk path for a list of the same item type, the
\* generic path (one append per item) otherwise
list_extend(p, items, is_list, ok) ==
  IF is_list THEN list_extend_list(p, build_list(items), FALSE, ok, ok)
  ELSE extend_generic(p, items, 1, ok)

list_constructor(items, ok) == extend_generic(build_list(<<>>), items, 1, ok)

(***************************************************************************)
(* The list machine: one list, the operations applied to it one after the  *)
(* other.  out records the last operation: its name, its arguments, the    *)
(* source operand's items, the payload before it, the error it raised,     *)
(* what it returned, the list it created, and (for element access and the  *)
(* iterator) the slots it loaded or stored.                                *)
(***************************************************************************)
EmptyPayload == build_list(<<>>)

Outcome(op, args, src, pre, r, new) ==
  [op |-> op, args |-> args, src |-> src, pre |-> pre,
   err |-> r.err, ret |-> r.ret, new |-> new, touched |-> <<>>]

NoIter == [live |-> FALSE, index |-> 0, exhausted |-> FALSE]

NoSlice ==
  [pc |-> "idle", in |-> Slice(0, 0, 1), size |-> 0, fixed |-> Slice(0, 0, 1),
   of |-> Slice(0, 0, 1), len |-> 0]

\* the run of appends in progress: the size at which the last append of the
\* run reallocated (-1 when none has), the appends since, the same two as
\* they were before the last operation, and what the last operation was
NoHist ==
  [at |-> 0 - 1, quiet |-> 0, last_at |-> 0 - 1, last_quiet |-> 0,
   prev |-> "none"]

\* once the header is corrupt (a negative size) every later access is
\* outside the allocation: the machine is not followed further
Sane(p) == p.size >= 0 /\ p.allocated >= 0

\* slots at or beyond size hold values no operation may rely on: the model
\* keeps them indeterminate
Scrub(p) ==
  [p EXCEPT !.data = [i \in 1..Len(p.data) |->
                        IF i <= p.size THEN p.data[i] ELSE Garbage]]

\* an operation is taken when it fails or leaves at most twice MaxLen
\* items; the machine goes on from lists of at most MaxLen items
Within(r) == r.err # NoErr \/ r.p.size <= 2 * MaxLen

Followed(p) == Sane(p) /\ p.size <= MaxLen

Idxs == (0 - MaxIdx)..MaxIdx

\* a multiplier whose product with a small odd size wraps to a negative size
BigMult == (Pow2(IntBits) - 1) \div 3

Mults == {0 - 1, 0, 1, 2, BigMult}

Steps == {0 - 2, 0 - 1, 0, 1, 2}

Bounds == Idxs \cup {MinInt, MaxInt}

\* the bounds and steps of the slices the list machine takes
NearBounds == (0 - 1)..MaxLen

NearSteps == {0 - 1, 1, 2}

\* source operands of the list machine
Sources == {[i \in 1..k |-> ((i - 1) % MaxVal) + 1] : k \in 0..MaxSrc}

\* lists whose items name their position, and sources whose items are new
Canon == {[i \in 1..k |-> i] : k \in 0..MaxLen}

Fresh == {[i \in 1..k |-> MaxLen + i] : k \in 0..MaxSrc}

\* an operation is followed from the states that carry no arguments (the
\* initial one, a new list, a len() call): len() leaves the payload as it
\* is, so every payload an operation produces is also one the next starts from
Observed == out.op \in {"init", "len", "build", "list"}

Apply(op, args, src, r) ==
  /\ Observed
  /\ Followed(lst)
  /\ Within(r)
  /\ lst' = Scrub(r.p)
  /\ out' = Outcome(op, args, src, lst, r, EmptyPayload)
  /\ UNCHANGED <<iter, sl, hist>>

ListLen ==
  /\ ~Observed
  /\ Followed(lst)
  /\ lst' = lst
  /\ out' = Outcome("len", <<>>, <<>>, lst, Done(lst, lst.size), EmptyPayload)
  /\ UNCHANGED <<iter, sl, hist>>

\* lst = [items...]: a new list; the iterator of the old one is dropped
Build(lists) ==
  \E items \in lists :
    /\ Observed
    /\ lst' = build_list(items)
    /\ out' = Outcome("build", <<>>, <<>>, lst', Done(lst', 0), EmptyPayload)
    /\ iter' = NoIter
    /\ UNCHANGED <<sl, hist>>

\* lst = list(iterable)
Construct(lists) ==
  \E items \in lists :
    /\ Observed
    /\ list_constructor(items, TRUE).err = NoErr
    /\ lst' = Scrub(list_constructor(items, TRUE).p)
    /\ out' = Outcome("list", <<>>, <<>>, lst', Done(lst', 0), EmptyPayload)
    /\ iter' = NoIter
    /\ UNCHANGED <<sl, hist>>

ListAppend ==
  \E v \in Vals, ok \in BOOLEAN :
    Apply("append", <<v>>, <<>>, list_append(lst, v, ok, ok))

ListInsert ==
  \E i \in Bounds, v \in Vals, ok \in BOOLEAN :
    Apply("insert", <<i, v>>, <<>>, list_insert(lst, i, v, ok, ok))

ListPop ==
  \E ok \in BOOLEAN :
    Apply("pop", <<>>, <<>>, list_pop(lst, ok, ok))

ListPopIndex ==
  \E i \in Bounds, ok \in BOOLEAN :
    Apply("pop(i)", <<i>>, <<>>, list_pop_index(lst, i, ok, ok))

ListClear ==
  \E ok \in BOOLEAN :
    Apply("clear", <<>>, <<>>, list_clear(lst, ok, ok))

ListExtend ==
  \E items \in Sources, ok \in BOOLEAN :
    Apply("extend", <<>>, items,
          list_extend_list(lst, build_list(items), FALSE, ok, ok))

ListExtendSelf ==
  \E ok \in BOOLEAN :
    Apply("extend(self)", <<>>, Items(lst),
          list_extend_list(lst, lst, TRUE, ok, ok))

ListExtendGeneric ==
  \E items \in Sources, ok \in BOOLEAN :
    Apply("extend(iter)", <<>>, items, list_extend(lst, items, FALSE, ok))

ListAddInplace ==
  \E items \in Sources, ok \in BOOLEAN :
    Apply("+=", <<>>, items,
          list_add_inplace(lst, build_list(items), FALSE, ok, ok))

ListAddInplaceSelf ==
  \E ok \in BOOLEAN :
    Apply("+=(self)", <<>>, Items(lst),
          list_add_inplace(lst, lst, TRUE, ok, ok))

\* lst * m: the list stays, out.new is the product
ListMul ==
  \E m \in Mults, ok \in BOOLEAN :
    /\ Observed
    /\ Followed(lst)
    /\ Within(list_mul(lst, m, ok))
    /\ lst' = lst
    /\ out' = Outcome("*", <<m>>, <<>>, lst, list_mul(lst, m, ok),
                      list_mul(lst, m, ok).p)
    /\ UNCHANGED <<iter, sl, hist>>

ListMulInplace ==
  \E m \in Mults, ok \in BOOLEAN :
    Apply("*=", <<m>>, <<>>, list_mul_inplace(lst, m, ok, ok))

SetSlice(bounds, steps, sources) ==
  \E start, stop \in bounds, step \in steps, items \in sources, ok \in BOOLEAN :
    Apply("setslice", <<start, stop, step>>, items,
          setslice_list(lst, Slice(start, stop, step), build_list(items),
                        FALSE, ok, ok))

DelSlice(bounds, steps) ==
  \E start, stop \in bounds, step \in steps, ok \in BOOLEAN :
    Apply("delslice", <<start, stop, step>>, <<>>,
          delslice_list(lst, Slice(start, stop, step), ok, ok))

Init ==
  /\ lst = build_list(<<>>)
  /\ out = Outcome("init", <<>>, <<>>, EmptyPayload, Done(EmptyPayload, 0), EmptyPayload)
  /\ iter = NoIter
  /\ sl = NoSlice
  /\ hist = NoHist

Next ==
  \/ ListLen
  \/ Build(SeqsUpTo(MaxLen))
  \/ ListAppend
  \/ ListInsert
  \/ ListPop
  \/ ListPopIndex
  \/ ListClear
  \/ ListExtend
  \/ ListExtendSelf
  \/ ListExtendGeneric
  \/ ListAddInplace
  \/ ListAddInplaceSelf
  \/ ListMul
  \/ ListMulInplace
  \/ SetSlice(NearBounds, NearSteps, Sources)
  \/ DelSlice(NearBounds, NearSteps)

Spec == Init /\ [][Next]_vars

(***************************************************************************)
(* Integer-index element access: lst[i] and lst[i] = v.                    *)
(***************************************************************************)
StopIteration == "StopIteration"

getitem_list(p, i) == Done(p, getitem(p, fix_index(i, p.size)))

setitem_list(p, i, value) == Done(setitem(p, fix_index(i, p.size), value), 0)

GetItem ==
  \E i \in Idxs :
    /\ Observed
    /\ Followed(lst)
    /\ lst' = getitem_list(lst, i).p
    /\ out' = [Outcome("getitem", <<i>>, <<>>, lst, getitem_list(lst, i), EmptyPayload)
                 EXCEPT !.touched = <<fix_index(i, lst.size)>>]
    /\ UNCHANGED <<iter, sl, hist>>

SetItem ==
  \E i \in Idxs, v \in Vals :
    /\ Observed
    /\ Followed(lst)
    /\ lst' = Scrub(setitem_list(lst, i, v).p)
    /\ out' = [Outcome("setitem", <<i, v>>, <<>>, lst, setitem_list(lst, i, v), EmptyPayload)
                 EXCEPT !.touched = <<fix_index(i, lst.size)>>]
    /\ UNCHANGED <<iter, sl, hist>>

NextIndex ==
  \/ Build(Canon)
  \/ Construct(Canon)
  \/ GetItem
  \/ SetItem

SpecIndex == Init /\ [][NextIndex]_vars

(***************************************************************************)
(* The list iterator: a cursor over the list's payload.                    *)
(***************************************************************************)
\* ListIterInstance.from_list
from_list == [live |-> TRUE, index |-> 0, exhausted |-> FALSE]

\* iternext with the bounds test off by one
iternext_off_by_one(p, index) ==
  LET is_valid == index <= p.size
  IN  [valid |-> is_valid,
       value |-> IF is_valid THEN getitem(p, index) ELSE 0,
       index |-> IF is_valid THEN Add(index, 1) ELSE index,
       touched |-> IF is_valid THEN <<index>> ELSE <<>>]

\* iternext: valid says whether an item is yielded
iternext_listiter(p, index) ==
  LET nitems == p.size
      is_valid == index < nitems
  IN  [valid |-> is_valid,
       value |-> IF is_valid THEN getitem(p, index) ELSE 0,
       index |-> IF is_valid THEN Add(index, 1) ELSE index,
       touched |-> IF is_valid THEN <<index>> ELSE <<>>]

GetIter ==
  /\ Observed
  /\ Followed(lst)
  /\ iter' = from_list
  /\ out' = Outcome("iter", <<>>, <<>>, lst, Done(lst, 0), EmptyPayload)
  /\ UNCHANGED <<lst, sl, hist>>

\* args: the cursor before the call, and whether the iterator had already
\* yielded nothing before it (1) or not (0)
IterNext ==
  LET r == iternext_listiter(lst, iter.index)
  IN  /\ Observed
      /\ Followed(lst)
      /\ iter.live
      /\ iter' = [iter EXCEPT !.index = r.index,
                              !.exhausted = iter.exhausted \/ ~r.valid]
      /\ out' = [Outcome("next", <<iter.index, IF iter.exhausted THEN 1 ELSE 0>>,
                         <<>>, lst,
                         IF r.valid THEN Done(lst, r.value) ELSE Fail(lst, StopIteration),
                         EmptyPayload)
                   EXCEPT !.touched = r.touched]
      /\ UNCHANGED <<lst, sl, hist>>

NextIter ==
  \/ ListLen
  \/ Build(Canon)
  \/ GetIter
  \/ IterNext
  \/ ListAppend
  \/ ListInsert
  \/ ListPop
  \/ ListClear
  \/ ListExtend
  \/ SetItem

SpecIter == Init /\ [][NextIter]_vars

(***************************************************************************)
(* Runs of append and pop on one list, long enough to cross two growths.   *)
(* hist follows the run of appends in progress.                            *)
(***************************************************************************)
\* the largest capacity the heap grants
AppendLen == (HeapLimit - PayloadSize) \div ItemSize

\* a new list, written out or built from an iterable; a new run
Start ==
  \E items \in Canon :
    /\ out.op = "init"
    /\ lst' \in {build_list(items), Scrub(list_constructor(items, TRUE).p)}
    /\ out' = Outcome("build", <<>>, <<>>, lst', Done(lst', 0), EmptyPayload)
    /\ hist' = NoHist
    /\ UNCHANGED <<iter, sl>>

\* lst.append(v), v set by the position it goes to
Push ==
  \E ok \in BOOLEAN :
    LET v == (lst.size % MaxVal) + 1
        r == list_append(lst, v, ok, ok)
    IN  /\ out.op # "init"
        /\ Sane(lst)
        /\ lst.size < AppendLen
        /\ lst' = Scrub(r.p)
        /\ out' = Outcome("append", <<v>>, <<>>, lst, r, EmptyPayload)
        /\ hist' = IF r.err # NoErr
                   THEN [NoHist EXCEPT !.last_at = hist.at,
                                       !.last_quiet = hist.quiet,
                                       !.prev = "failed"]
                   ELSE IF r.p.allocated # lst.allocated
                   THEN [at |-> r.p.size, quiet |-> 0, last_at |-> hist.at,
                         last_quiet |-> hist.quiet,
                         prev |-> IF r.p.allocated > lst.allocated
                                  THEN "grow" ELSE "shrink"]
                   ELSE [at |-> hist.at, quiet |-> hist.quiet + 1,
                         last_at |-> hist.at, last_quiet |-> hist.quiet,
                         prev |-> "append"]
        /\ UNCHANGED <<iter, sl>>

\* lst.pop(): the run of appends ends
Pop ==
  \E ok \in BOOLEAN :
    /\ out.op # "init"
    /\ Sane(lst)
    /\ lst' = Scrub(list_pop(lst, ok, ok).p)
    /\ out' = Outcome("pop", <<>>, <<>>, lst, list_pop(lst, ok, ok), EmptyPayload)
    /\ hist' = [NoHist EXCEPT !.last_at = hist.at, !.last_quiet = hist.quiet,
                              !.prev = IF hist.prev = "grow"
                                       THEN "pop after grow" ELSE "pop"]
    /\ UNCHANGED <<iter, sl>>

NextAppend ==
  \/ Start
  \/ Push
  \/ Pop

SpecAppend == Init /\ [][NextAppend]_vars

(***************************************************************************)
(* Queries that leave the list as it is: index, and (below) the            *)
(* comparisons.  A query's result carries the slots it loaded.             *)
(***************************************************************************)
NotFoundErr == "ValueError: value not in list"

\* for i in range(start, stop): if lst[i] == value: return i
\* raise ValueError
RECURSIVE index_scan(_, _, _, _, _)
index_scan(p, value, i, stop, touched) ==
  IF i >= stop
  THEN [err |-> NotFoundErr, p |-> p, ret |-> 0, touched |-> touched]
  ELSE IF getitem_list(p, i).ret = value
  THEN [err |-> NoErr, p |-> p, ret |-> i, touched |-> Append(touched, i)]
  ELSE index_scan(p, value, Add(i, 1), stop, Append(touched, i))

\* the start of index(value, start[, stop]) after its fix-up
index_start(start, n) ==
  IF start < 0
  THEN (IF Add(start, n) < 0 THEN 0 ELSE Add(start, n))
  ELSE start

\* the stop left as it is when beyond the length
index_stop_unclamped(stop, n) == IF stop < 0 THEN Add(stop, n) ELSE stop

\* the stop of index(value, start, stop) after its fix-up
index_stop(stop, n) ==
  LET s == IF stop < 0 THEN Add(stop, n) ELSE stop
  IN  IF s > n THEN n ELSE s

list_index1(p, value) == index_scan(p, value, 0, p.size, <<>>)

list_index2(p, value, start) ==
  index_scan(p, value, index_start(start, p.size), p.size, <<>>)

list_index3(p, value, start, stop) ==
  index_scan(p, value, index_start(start, p.size), index_stop(stop, p.size),
             <<>>)

Query(op, args, src, r) ==
  /\ Observed
  /\ Followed(lst)
  /\ lst' = lst
  /\ out' = [Outcome(op, args, src, lst, r, EmptyPayload)
               EXCEPT !.touched = r.touched]
  /\ UNCHANGED <<iter, sl, hist>>

\* lst.index(v), lst.index(v, start), lst.index(v, start, stop): the last
\* argument recorded is the number of arguments of the call
ListIndex ==
  \E v \in Vals, start, stop \in Bounds :
    \/ start = 0 /\ stop = 0 /\ Query("index", <<v, 0, 0, 1>>, <<>>, list_index1(lst, v))
    \/ stop = 0 /\ Query("index", <<v, start, 0, 2>>, <<>>, list_index2(lst, v, start))
    \/ Query("index", <<v, start, stop, 3>>, <<>>, list_index3(lst, v, start, stop))

\* a == b: the sizes, then item by item until the first mismatch
RECURSIVE eq_scan(_, _, _, _)
eq_scan(a, b, i, a_size) ==
  IF i >= a_size THEN TRUE
  ELSE IF getitem(a, i) # getitem(b, i) THEN FALSE
  ELSE eq_scan(a, b, i + 1, a_size)

list_eq(a, b) == IF a.size = b.size THEN eq_scan(a, b, 0, a.size) ELSE FALSE

\* for i in range(min(m, n)): a[i] < b[i] -> True, a[i] > b[i] -> False;
\* the fallback compares the lengths
RECURSIVE lt_scan(_, _, _, _, _)
lt_scan(a, b, i, m, n) ==
  IF i >= Min(m, n) THEN m < n
  ELSE IF getitem_list(a, i).ret < getitem_list(b, i).ret THEN TRUE
  ELSE IF getitem_list(a, i).ret > getitem_list(b, i).ret THEN FALSE
  ELSE lt_scan(a, b, i + 1, m, n)

\* the scan of a < b with the fallback m <= n in place of m < n
RECURSIVE lt_scan_or_equal(_, _, _, _, _)
lt_scan_or_equal(a, b, i, m, n) ==
  IF i >= Min(m, n) THEN m <= n
  ELSE IF getitem_list(a, i).ret < getitem_list(b, i).ret THEN TRUE
  ELSE IF getitem_list(a, i).ret > getitem_list(b, i).ret THEN FALSE
  ELSE lt_scan_or_equal(a, b, i + 1, m, n)

list_lt_or_equal(a, b) == lt_scan_or_equal(a, b, 0, a.size, b.size)

list_lt(a, b) == lt_scan(a, b, 0, a.size, b.size)

\* lst < b, b < lst and lst == b for a second list b
ListCompare ==
  \E items \in SeqsUpTo(MaxLen) :
    /\ Observed
    /\ Followed(lst)
    /\ lst' = lst
    /\ out' = Outcome("compare", <<>>, items, lst,
                      Done(lst, [lt |-> list_lt(lst, build_list(items)),
                                 gt |-> list_lt(build_list(items), lst),
                                 eq |-> list_eq(lst, build_list(items))]),
                      EmptyPayload)
    /\ UNCHANGED <<iter, sl, hist>>

NextQuery ==
  \/ Build(SeqsUpTo(MaxLen))
  \/ ListIndex
  \/ ListCompare

SpecQuery == Init /\ [][NextQuery]_vars

(***************************************************************************)
(* Slice arithmetic on its own: a slice as written and a sequence size,    *)
(* then fix_slice, then get_slice_length (or get_slice_length on the slice *)
(* as written, when its bounds are within reach of a list).                *)
(***************************************************************************)
\* what the length computation can produce: sdiv has no defined result for
\* the most negative dividend over -1
slice_length_outcomes(s) ==
  IF SDivUndefined(slice_dividend(s), s.step) THEN IntP
  ELSE {get_slice_length(s)}

InitSlicing ==
  /\ lst = build_list(<<>>)
  /\ out = Outcome("init", <<>>, <<>>, EmptyPayload, Done(EmptyPayload, 0), EmptyPayload)
  /\ iter = NoIter
  /\ hist = NoHist
  /\ \E start, stop \in Bounds, step \in Steps, size \in 0..MaxLen :
       sl = [NoSlice EXCEPT !.in = Slice(start, stop, step), !.size = size]

FixSlice ==
  /\ sl.pc = "idle"
  /\ sl' = [sl EXCEPT !.pc = "fixed", !.fixed = fix_slice(sl.in, sl.size)]
  /\ UNCHANGED <<lst, out, iter, hist>>

Measure ==
  LET s == IF sl.pc = "fixed" THEN sl.fixed ELSE sl.in
  IN  /\ sl.pc \in {"idle", "fixed"}
      /\ sl.pc = "idle" => (s.start \in Idxs /\ s.stop \in Idxs)
      /\ ~invalid_slice(s)
      /\ \E len \in slice_length_outcomes(s) :
           sl' = [sl EXCEPT !.pc = "measured", !.of = s, !.len = len]
      /\ UNCHANGED <<lst, out, iter, hist>>

NextSlicing ==
  \/ FixSlice
  \/ Measure

SpecSlicing == InitSlicing /\ [][NextSlicing]_vars

(***************************************************************************)
(* Slice operations on lists whose items name their position.              *)
(***************************************************************************)
GetSlice ==
  \E start, stop \in Bounds, step \in Steps, ok \in BOOLEAN :
    /\ Observed
    /\ Followed(lst)
    /\ lst' = lst
    /\ out' = Outcome("getslice", <<start, stop, step>>, <<>>, lst,
                      getslice_list(lst, Slice(start, stop, step), ok),
                      getslice_list(lst, Slice(start, stop, step), ok).p)
    /\ UNCHANGED <<iter, sl, hist>>

\* lst[start:stop:step] = lst[start:stop:step]: the slice is copied into a
\* new list, which is then assigned
slice_round_trip(p, raw, ok) ==
  LET copy == getslice_list(p, raw, ok)
  IN  IF copy.err # NoErr THEN Fail(p, copy.err)
      ELSE setslice_list(p, raw, copy.p, FALSE, ok, ok)

\* the last argument recorded is 1 when the allocator meets every request
RoundTrip ==
  \E start, stop \in Bounds, step \in Steps, ok \in BOOLEAN :
    Apply("roundtrip", <<start, stop, step, IF ok THEN 1 ELSE 0>>,
          Items(getslice_list(lst, Slice(start, stop, step), ok).p),
          slice_round_trip(lst, Slice(start, stop, step), ok))

NextSlice ==
  \/ Build(Canon)
  \/ Construct(Canon)
  \/ GetSlice
  \/ SetSlice(Bounds, Steps, Fresh)
  \/ DelSlice(Bounds, Steps)
  \/ RoundTrip

SpecSlice == Init /\ [][NextSlice]_vars

(***************************************************************************)
(* The claims.                                                             *)
(***************************************************************************)

\* C1: after every completed operation of the list machine the payload
\* satisfies 0 <= size <= capacity.
C1_SizeWithinCapacity ==
  out.err = NoErr => (0 <= lst.size /\ lst.size <= lst.allocated)

\* C2: lst[i] and lst[i] = v with the fixed index outside [0, size) fail
\* with an index error and neither load nor store any slot.
C2_IndexGuarded ==
  (/\ out.op \in {"getitem", "setitem"}
   /\ is_out_of_bounds(out.pre, fix_index(out.args[1], out.pre.size)))
  => (/\ out.err = "IndexError"
      /\ out.touched = <<>>
      /\ lst = out.pre)

\* C3: an operation that fails with MemoryError leaves size, capacity and
\* items as they were before the call.
C3_FailureLeavesListUnchanged ==
  out.err = MemErr =>
    (/\ lst.size = out.pre.size
     /\ lst.allocated = out.pre.allocated
     /\ Items(lst) = Items(out.pre))

\* C4: once an advance of an iterator has yielded nothing, every later
\* advance of that iterator yields nothing, whatever was done to the list
\* in between.
C4_ExhaustionPermanent ==
  (out.op = "next" /\ out.args[2] = 1) => out.err = StopIteration

\* C5: an advance compares the cursor with the size the payload has at the
\* call: below it, it yields the item now at the cursor and moves the cursor
\* by one; otherwise it yields nothing and leaves the cursor; no slot at or
\* beyond the current size is loaded.
C5_AdvanceRereadsSize ==
  out.op = "next" =>
    LET cursor == out.args[1]
    IN  /\ IF cursor < out.pre.size
           THEN /\ out.err = NoErr
                /\ out.ret = out.pre.data[cursor + 1]
                /\ iter.index = cursor + 1
                /\ out.touched = <<cursor>>
           ELSE /\ out.err = StopIteration
                /\ iter.index = cursor
                /\ out.touched = <<>>
        /\ \A k \in 1..Len(out.touched) :
              out.touched[k] >= 0 /\ out.touched[k] < lst.size

\* C5 witness: the list was truncated below the cursor of a running
\* iterator, and the advance yielded nothing
C5_Witness_Truncated ==
  /\ out.op = "next"
  /\ out.err = StopIteration
  /\ out.args[1] > out.pre.size
  /\ out.args[2] = 0

(***************************************************************************)
(* Slice semantics stated independently of the code: the normalized bound  *)
(* and the indices start, start + step, ... strictly before stop.          *)
(***************************************************************************)
NormBound(v, size, step) ==
  LET w == IF v < 0 THEN v + size ELSE v
  IN  IF step > 0
      THEN (IF w < 0 THEN 0 ELSE IF w >= size THEN size ELSE w)
      ELSE (IF w < 0 THEN 0 - 1 ELSE IF w >= size THEN size - 1 ELSE w)

Traversal(start, stop, step) ==
  {k \in 0..Abs(stop - start) :
     IF step > 0 THEN start + k * step < stop ELSE start + k * step > stop}

TraversalCount(start, stop, step) == Cardinality(Traversal(start, stop, step))

Degenerate(s) ==
  \/ s.step > 0 /\ s.stop <= s.start
  \/ s.step < 0 /\ s.stop >= s.start

\* the normalized start and the length of the slice of the recorded call
CallStart == NormBound(out.args[1], out.pre.size, out.args[3])

CallStop == NormBound(out.args[2], out.pre.size, out.args[3])

CallLength == TraversalCount(CallStart, CallStop, out.args[3])

\* C6: for step # 0 and size >= 0, fix_slice replaces each bound v by
\* v + size when v < 0, then clamps it: for a positive step below 0 to 0 and
\* at or above size to size; for a negative step below 0 to -1 and at or
\* above size to size - 1; the step is kept.
C6_FixSliceNormalizes ==
  (sl.pc = "fixed" /\ sl.in.step # 0) =>
    /\ sl.fixed.start = NormBound(sl.in.start, sl.size, sl.in.step)
    /\ sl.fixed.stop = NormBound(sl.in.stop, sl.size, sl.in.step)
    /\ sl.fixed.step = sl.in.step

\* C6 witness: a negative step with the start clamped down to size - 1 and
\* the stop clamped up to -1
C6_Witness_NegativeClamps ==
  /\ sl.pc = "fixed"
  /\ sl.in.step < 0
  /\ sl.size = MaxLen
  /\ sl.in.start = MaxInt /\ sl.fixed.start = MaxLen - 1
  /\ sl.in.stop = MinInt /\ sl.fixed.stop = 0 - 1

\* C7: for a slice with step # 0, get_slice_length is the number of indices
\* start, start + step, ... strictly before stop in the direction of the
\* step; it is 0 when stop <= start with a positive step or stop >= start
\* with a negative step, and it is never negative.
C7_LengthCountsTraversal ==
  sl.pc = "measured" =>
    /\ sl.len = TraversalCount(sl.of.start, sl.of.stop, sl.of.step)
    /\ sl.len >= 0
    /\ Degenerate(sl.of) => sl.len = 0

\* C7 witness: a normalized slice walked backwards by two, two indices long
C7_Witness_BackwardsByTwo ==
  /\ sl.pc = "measured"
  /\ sl.of = sl.fixed
  /\ sl.in = Slice(MaxInt, MinInt, 0 - 2)
  /\ sl.of = Slice(MaxLen - 1, 0 - 1, 0 - 2)
  /\ sl.len = 2

\* C8: lst[start:stop:step] with step # 0 returns a new list whose size is
\* the length of the normalized slice, whose k-th item is the source item at
\* start' + k * step, every such index being in [0, size); the source list
\* is unchanged.
C8_GetSliceGathers ==
  (out.op = "getslice" /\ out.err = NoErr) =>
    /\ out.new.size = CallLength
    /\ \A k \in 0..(CallLength - 1) :
          /\ CallStart + k * out.args[3] >= 0
          /\ CallStart + k * out.args[3] < out.pre.size
          /\ out.new.data[k + 1] = out.pre.data[CallStart + k * out.args[3] + 1]
    /\ lst = out.pre

\* C8 witness: a list of MaxLen items sliced backwards by two
C8_Witness_BackwardsByTwo ==
  /\ out.op = "getslice"
  /\ out.err = NoErr
  /\ out.args = <<0 - 1, MinInt, 0 - 2>>
  /\ out.pre.size = MaxLen
  /\ out.new.size = 2
  /\ out.new.data[1] = MaxLen

\* C9: dest[start:stop] = src (step 1, src a distinct list) leaves
\* old[0:start'] ++ src ++ old[start' + L:] with L the slice length, and the
\* size old + len(src) - L, also when the stop lies before the start.
C9_StepOneSplices ==
  (out.op = "setslice" /\ out.err = NoErr /\ out.args[3] = 1) =>
    /\ Items(lst) = SubSeq(Items(out.pre), 1, CallStart) \o out.src
                    \o SubSeq(Items(out.pre), CallStart + CallLength + 1,
                              out.pre.size)
    /\ lst.size = out.pre.size + Len(out.src) - CallLength

\* C9 witness: an insertion through a slice whose stop lies before its
\* start, in the middle of the list
C9_Witness_StopBeforeStart ==
  /\ out.op = "setslice"
  /\ out.err = NoErr
  /\ out.args = <<1, 0, 1>>
  /\ out.pre.size = 2
  /\ Len(out.src) = 1
  /\ Items(lst) = <<1, MaxLen + 1, 2>>

\* C10: dest[start:stop:step] = src with step # 1: when len(src) differs
\* from the slice length the call fails with the size mismatch error and
\* dest is unchanged; otherwise item k of src is stored at start' + k * step
\* and nothing else of dest changes.
C10_ExtendedSliceAssign ==
  (out.op = "setslice" /\ out.args[3] # 0 /\ out.args[3] # 1) =>
    IF Len(out.src) # CallLength
    THEN out.err = SizeErr /\ lst = out.pre
    ELSE /\ out.err = NoErr
         /\ lst.size = out.pre.size
         /\ lst.allocated = out.pre.allocated
         /\ \A k \in 0..(CallLength - 1) :
               lst.data[CallStart + k * out.args[3] + 1] = out.src[k + 1]
         /\ \A i \in 0..(out.pre.size - 1) :
               (\A k \in 0..(CallLength - 1) : i # CallStart + k * out.args[3])
               => lst.data[i + 1] = out.pre.data[i + 1]

\* C10 witness: two items stored backwards by two into a list of MaxLen
C10_Witness_BackwardsByTwo ==
  /\ out.op = "setslice"
  /\ out.err = NoErr
  /\ out.args[3] = 0 - 2
  /\ out.pre.size = MaxLen
  /\ Len(out.src) = 2
  /\ lst.data[MaxLen] = MaxLen + 1
  /\ lst.data[MaxLen - 2] = MaxLen + 2

\* the index of the recorded call after the wrap of a negative index
CallIndex ==
  IF out.args[1] < 0 THEN out.args[1] + out.pre.size ELSE out.args[1]

\* the errors of the unsupported-operation kind: an extended slice deletion,
\* a zero step
UnsupportedOperation == {DelErr, StepErr}

\* C11: del lst[start:stop] (step 1) leaves old[0:s] ++ old[s+L:] with size
\* old - L, s the normalized start and L the slice length; with any other
\* step the call fails with an unsupported-operation error and the list is
\* as it was.
C11_SliceDeletion ==
  out.op = "delslice" =>
    IF out.args[3] = 1
    THEN out.err = NoErr =>
           /\ Items(lst) = SubSeq(Items(out.pre), 1, CallStart)
                           \o SubSeq(Items(out.pre), CallStart + CallLength + 1,
                                     out.pre.size)
           /\ lst.size = out.pre.size - CallLength
    ELSE out.err \in UnsupportedOperation /\ lst = out.pre

\* C11 witness: the middle item deleted from a list of MaxLen items
C11_Witness_MiddleDeleted ==
  /\ out.op = "delslice"
  /\ out.err = NoErr
  /\ out.args = <<1, 2, 1>>
  /\ out.pre.size = MaxLen
  /\ lst.size = MaxLen - 1
  /\ lst.data[1] = 1
  /\ lst.data[2] = 3

\* C12: pop(i) on a non-empty list with j = fix_index(i) in [0, size)
\* returns old[j] and leaves old[0:j] ++ old[j+1:], the size one less.
C12_PopIndexRemoves ==
  (/\ out.op = "pop(i)"
   /\ out.pre.size > 0
   /\ CallIndex >= 0 /\ CallIndex < out.pre.size)
  => /\ out.err \in {NoErr, MemErr}
     /\ out.err = NoErr =>
          /\ out.ret = out.pre.data[CallIndex + 1]
          /\ Items(lst) = SubSeq(Items(out.pre), 1, CallIndex)
                          \o SubSeq(Items(out.pre), CallIndex + 2, out.pre.size)
          /\ lst.size = out.pre.size - 1

\* C12 witness: the first of three items popped through a negative index
C12_Witness_NegativeIndex ==
  /\ out.op = "pop(i)"
  /\ out.err = NoErr
  /\ out.pre.size = 3
  /\ out.args = <<0 - 3>>
  /\ out.pre.data[1] # out.pre.data[2]
  /\ out.ret = out.pre.data[1]
  /\ lst.size = 2

\* C13: pop() and pop(i) on an empty list fail with the empty-list error;
\* pop(i) on a non-empty list with the fixed index outside [0, size) fails
\* with the out-of-range error; in each case the list is as it was.
C13_PopErrors ==
  /\ (out.op \in {"pop", "pop(i)"} /\ out.pre.size = 0)
       => (out.err = EmptyErr /\ lst = out.pre)
  /\ (/\ out.op = "pop(i)"
      /\ out.pre.size > 0
      /\ (CallIndex < 0 \/ CallIndex >= out.pre.size))
       => (out.err = RangeErr /\ lst = out.pre)

\* C13 witness: pop(i) of an empty list with an index that is also out of
\* range
C13_Witness_EmptyBeforeRange ==
  /\ out.op = "pop(i)"
  /\ out.pre.size = 0
  /\ out.args = <<MaxInt>>
  /\ out.err = EmptyErr

\* C14: insert(i, v) does not fail for index reasons: with j = fix_index(i)
\* clamped into [0, size] the list becomes old[0:j] ++ <<v>> ++ old[j:], the
\* size one more.
C14_InsertClamps ==
  out.op = "insert" =>
    LET j == Max(0, Min(CallIndex, out.pre.size))
    IN  /\ out.err \in {NoErr, MemErr}
        /\ out.err = NoErr =>
             /\ Items(lst) = SubSeq(Items(out.pre), 1, j) \o <<out.args[2]>>
                             \o SubSeq(Items(out.pre), j + 1, out.pre.size)
             /\ lst.size = out.pre.size + 1

\* C14 witness: an insert far beyond the end lands after the last item
C14_Witness_BeyondEnd ==
  /\ out.op = "insert"
  /\ out.err = NoErr
  /\ out.args[1] = MaxInt
  /\ out.pre.size = 2
  /\ lst.size = 3
  /\ lst.data[3] = out.args[2]
  /\ lst.data[2] = out.pre.data[2]

\* the scan range of the recorded index call and the matches inside it
IndexLow ==
  IF out.args[4] = 1 THEN 0
  ELSE Max(0, IF out.args[2] < 0 THEN out.args[2] + out.pre.size ELSE out.args[2])

IndexHigh ==
  IF out.args[4] < 3 THEN out.pre.size
  ELSE Min(out.pre.size,
           IF out.args[3] < 0 THEN out.args[3] + out.pre.size ELSE out.args[3])

IndexHits ==
  {i \in 0..(out.pre.size - 1) :
     i >= IndexLow /\ i < IndexHigh /\ out.pre.data[i + 1] = out.args[1]}

\* C15: index(v, start, stop) returns the smallest i with lo <= i < hi and
\* lst[i] = v, lo the start wrapped and clamped to at least 0, hi the stop
\* wrapped and clamped to at most len; it fails with the not-found error
\* exactly when there is no such i, and loads no slot outside [0, len).
C15_IndexFindsFirst ==
  out.op = "index" =>
    /\ (IndexHits = {}) <=> (out.err = NotFoundErr)
    /\ IndexHits # {} =>
         /\ out.err = NoErr
         /\ out.ret \in IndexHits
         /\ \A i \in IndexHits : out.ret <= i
    /\ \A k \in 1..Len(out.touched) :
         out.touched[k] >= 0 /\ out.touched[k] < out.pre.size
    /\ lst = out.pre

\* C15 witness: a second match found from a negative start, the stop far
\* beyond the length
C15_Witness_NegativeStart ==
  /\ out.op = "index"
  /\ out.err = NoErr
  /\ out.args = <<1, 0 - 2, MaxInt, 3>>
  /\ out.pre.size = 3
  /\ out.pre.data[1] = 1
  /\ out.pre.data[2] = 2
  /\ out.ret = 2
  /\ out.touched = <<1, 2>>

\* C16: a += b and a.extend(b) with b a list leave old a ++ b with size
\* len(a) + len(b); with b the list a itself they leave old a ++ old a; the
\* generic path (one append per item) leaves the same items as the bulk path.
C16_ExtendConcatenates ==
  out.err = NoErr =>
    /\ out.op \in {"extend", "+=", "extend(self)", "+=(self)", "extend(iter)"}
         => /\ Items(lst) = Items(out.pre) \o out.src
            /\ lst.size = out.pre.size + Len(out.src)
    /\ out.op \in {"extend(self)", "+=(self)"} => out.src = Items(out.pre)
    /\ out.op = "extend(iter)"
         => Items(lst) = Items(list_extend(out.pre, out.src, TRUE, TRUE).p)

\* C16 witness: a list of MaxLen items extended by itself
C16_Witness_SelfExtend ==
  /\ out.op = "extend(self)"
  /\ out.err = NoErr
  /\ out.pre.size = MaxLen
  /\ out.pre.data[1] # out.pre.data[MaxLen]
  /\ lst.size = 2 * MaxLen
  /\ lst.allocated > out.pre.allocated

\* the list a product is read from: the new list of a * n, the list itself
\* after a *= n
Product == IF out.op = "*" THEN out.new ELSE lst

\* C17: for every list a and integer n, a * n returns a new list of size
\* len(a) * max(n, 0) whose item k is a[k mod len(a)] and leaves a as it was;
\* a *= n leaves a holding that same sequence.
C17_RepeatTiles ==
  (out.op \in {"*", "*="} /\ out.err = NoErr) =>
    /\ Product.size = out.pre.size * Max(out.args[1], 0)
    /\ \A k \in 0..(Product.size - 1) :
          Product.data[k + 1] = out.pre.data[(k % out.pre.size) + 1]
    /\ out.op = "*" => lst = out.pre

\* the first index below both lengths at which two sequences differ, or
\* the shorter length when there is none
FirstDifference(a, b) ==
  LET m == Min(Len(a), Len(b))
      d == {i \in 1..m : a[i] # b[i]}
  IN  IF d = {} THEN m + 1 ELSE CHOOSE i \in d : \A j \in d : i <= j

LexLess(a, b) ==
  LET i == FirstDifference(a, b)
  IN  IF i <= Min(Len(a), Len(b)) THEN a[i] < b[i] ELSE Len(a) < Len(b)

\* C18: a < b and b < a are never both true; a == b (same size, items
\* pairwise equal) rules out both; a < b is decided by the first differing
\* index below both lengths, and by len(a) < len(b) when there is none.
C18_OrderAndEquality ==
  out.op = "compare" =>
    /\ ~(out.ret.lt /\ out.ret.gt)
    /\ out.ret.eq <=> (Items(out.pre) = out.src)
    /\ out.ret.eq => (~out.ret.lt /\ ~out.ret.gt)
    /\ out.ret.lt <=> LexLess(Items(out.pre), out.src)
    /\ out.ret.gt <=> LexLess(out.src, Items(out.pre))

\* C18 witness: a proper prefix is less than the longer list
C18_Witness_Prefix ==
  /\ out.op = "compare"
  /\ out.pre.size = 2
  /\ Len(out.src) = 3
  /\ SubSeq(out.src, 1, 2) = Items(out.pre)
  /\ out.ret.lt
  /\ ~out.ret.gt
  /\ ~out.ret.eq

\* C19: for every list and every slice with a nonzero step,
\* lst[start:stop:step] = lst[start:stop:step] succeeds and leaves the size
\* and the items of lst as they were.
C19_RoundTrip ==
  (out.op = "roundtrip" /\ out.args[3] # 0) =>
    /\ out.args[4] = 1 => out.err = NoErr
    /\ out.err \in {NoErr, MemErr}
    /\ lst.size = out.pre.size
    /\ Items(lst) = Items(out.pre)

\* C19 witness: the whole of a list of MaxLen items, walked backwards,
\* assigned to itself
C19_Witness_Reversed ==
  /\ out.op = "roundtrip"
  /\ out.err = NoErr
  /\ out.args = <<0 - 1, MinInt, 0 - 1, 1>>
  /\ out.pre.size = MaxLen
  /\ Len(out.src) = MaxLen
  /\ out.src[1] = MaxLen
  /\ lst = out.pre

\* the recorded call resizes the list to the size it has: extend or += with
\* an empty list, *= 1
ResizeToSameSize ==
  \/ out.op \in {"extend", "+="} /\ out.src = <<>>
  \/ out.op = "*=" /\ out.args = <<1>>

\* C20: a resize to the current size (extend or += with an empty source,
\* *= 1) reallocates nothing: the call completes and the capacity, the size
\* and the items are as they were.
C20_ResizeIdempotent ==
  ResizeToSameSize =>
    /\ out.err = NoErr
    /\ lst.allocated = out.pre.allocated
    /\ lst.size = out.pre.size
    /\ Items(lst) = Items(out.pre)

\* C21: from no reachable list state does an append reallocate to grow and
\* the pop right after it reallocate to shrink.
C21_NoThrash ==
  hist.prev = "pop after grow" =>
    /\ out.err # MemErr
    /\ lst.allocated = out.pre.allocated

\* the appends that fit in the headroom of a growth at new size s
Headroom(s) == Ashr2(s) + 8

\* C22: no append takes the shrink branch of resize; an append that
\* reallocates at new size s leaves the capacity at s + (s >> 2) + 8, and each
\* of the next (s >> 2) + 8 appends reallocates nothing: it adds one to the
\* size and writes its value at the new last slot, the other items kept.
C22_AmortizedGrowth ==
  out.op = "append" =>
    /\ ~is_too_large(out.pre.allocated, out.pre.size + 1)
    /\ hist.prev # "shrink"
    /\ hist.prev = "grow" =>
         /\ hist.at = out.pre.size + 1
         /\ lst.size = hist.at
         /\ lst.allocated = hist.at + Ashr2(hist.at) + 8
    /\ (hist.last_at >= 0 /\ hist.last_quiet < Headroom(hist.last_at)) =>
         /\ out.err = NoErr
         /\ hist.prev = "append"
         /\ lst.allocated = out.pre.allocated
         /\ lst.size = out.pre.size + 1
         /\ lst.data[lst.size] = out.args[1]
         /\ \A i \in 1..out.pre.size : lst.data[i] = out.pre.data[i]

\* the last append of the headroom of a growth that was not the first one:
\* the list is full again
C22_Witness_HeadroomUsed ==
  /\ out.op = "append"
  /\ hist.prev = "append"
  /\ hist.at > MaxLen + 1
  /\ hist.quiet = Headroom(hist.at)
  /\ lst.size = lst.allocated

====
